---- MODULE Spec2Model ----
(***************************************************************************)
(* Session lifecycle of the conference-booth server: POST                  *)
(* /api/conversations (rate limit, configuration checks, vendor call,      *)
(* session store write), the webhook endpoint (dedupe, signature check),   *)
(* the fixed-window rate limiter and the two session stores; and, in the   *)
(* browser, the conversation component's creation request and the          *)
(* conversation timer.                                                     *)
(*                                                                         *)
(* Conventions: a missing number (null conversationId / conversationUrl)   *)
(* is 0, a missing string (null status, absent header) is "".  A JSON body *)
(* is a record holding exactly the keys the handler emits.  A Map is a     *)
(* function whose DOMAIN is the set of keys present.                       *)
(***************************************************************************)
EXTENDS Integers, Sequences, FiniteSets, TLC

\* ---------------------------------------------------------------- bounds
MaxTime == 2            \* the clock runs 0..MaxTime
WindowMs == 2           \* options.windowMs of the conversation limiter, in ticks
RateMax == 2            \* options.max of the conversation limiter
DedupeTtlMs == 2        \* WEBHOOK_DEDUPE_TTL_MS, in ticks
SessionTtlMs == 1       \* session TTL of the reuse contract, in ticks
MaxVendorCalls == 2     \* vendor conversation-creation calls per behaviour
MaxDeliveries == 3      \* webhook deliveries per behaviour
MaxPosts == 3           \* POST /api/conversations sent by one component
MaxDuration == 8        \* largest conversationDuration, in seconds
MaxRuns == 3            \* runs of the video interface's effect
MaxVideoRuns == 2       \* the same, while participants come and go
MaxPad == 1             \* white space characters on a side of a source
MaxRemotes == 2         \* remote participants in a call at a time

SessionIds == {"s1", "s2"}
Ips == {"ip1", "ip2"}
Reqs == {"r1", "r2"}
VendorErrorStatuses == {400, 500}
VendorStatuses == {"", "created"}
UrlFields == {"conversation_url", "url", "link", "none"}
IdFields == {"conversation_id", "id", "none"}
EventTypes == {"ended", "joined", "perception"}
WebhookSecret == "whsec"

VARIABLES
  now,                 \* Date.now()
  env,                 \* process.env as read by the handlers
  sessions,            \* the session store: id -> Session
  hits,                \* conversationLimiter's Map: key -> {count, resetAt}
  webhookDedupeStore,  \* Map: dedupe key -> expiry
  reqs,                \* POST /api/conversations requests awaiting the vendor
  vendorCalls,         \* conversation-creation calls sent to the vendor
  vendorCount,         \* conversations the vendor has created
  deliveries,          \* webhook deliveries received
  statusLog,           \* per session id, the statuses the handlers stored
  rl,                  \* the limiter's most recent decision
  last,                \* the most recent HTTP response, with its request
  conv,                \* the browser's AIConversationInterface component
  timer,               \* the ConversationTimer of a conversation on screen
  video                \* the DailyVideoInterface and its Daily call objects

vars == <<now, env, sessions, hits, webhookDedupeStore, reqs, vendorCalls,
          vendorCount, deliveries, statusLog, rl, last, conv, timer,
          video>>
serverVars == <<now, env, sessions, hits, webhookDedupeStore, reqs,
                vendorCalls, vendorCount, deliveries, statusLog, rl, last>>

Has(rec, key) == key \in DOMAIN rec
Max(a, b) == IF a >= b THEN a ELSE b
CeilDiv(a, b) == (a + b - 1) \div b

\* ------------------------------------------------------------ rate limiter
\* createRateLimiter's closure: the new Map and the RateLimitResult.
RateLimiterSliding(h, key, t) ==
  IF key \notin DOMAIN h \/ h[key].resetAt <= t
    THEN [hits |-> (key :> [count |-> 1, resetAt |-> t + WindowMs]) @@ h,
          result |-> [allowed |-> TRUE, remaining |-> Max(RateMax - 1, 0),
                      resetAt |-> t + WindowMs]]
    ELSE IF h[key].count >= RateMax
      THEN [hits |-> [h EXCEPT ![key].resetAt = t + WindowMs],
            result |-> [allowed |-> FALSE, remaining |-> 0,
                        resetAt |-> t + WindowMs]]
      ELSE [hits |-> [h EXCEPT ![key].count = @ + 1],
            result |-> [allowed |-> TRUE,
                        remaining |-> Max(RateMax - (h[key].count + 1), 0),
                        resetAt |-> h[key].resetAt]]

RateLimiterBroken(h, key, t) ==
  IF key \notin DOMAIN h \/ h[key].resetAt <= t
    THEN [hits |-> (key :> [count |-> 1, resetAt |-> t + WindowMs]) @@ h,
          result |-> [allowed |-> TRUE, remaining |-> Max(RateMax - 1, 0),
                      resetAt |-> t + WindowMs]]
    ELSE IF h[key].count > RateMax
      THEN [hits |-> h,
            result |-> [allowed |-> FALSE, remaining |-> 0,
                        resetAt |-> h[key].resetAt]]
      ELSE [hits |-> [h EXCEPT ![key].count = @ + 1],
            result |-> [allowed |-> TRUE,
                        remaining |-> Max(RateMax - (h[key].count + 1), 0),
                        resetAt |-> h[key].resetAt]]

RateLimiter(h, key, t) ==
  IF key \notin DOMAIN h \/ h[key].resetAt <= t
    THEN [hits |-> (key :> [count |-> 1, resetAt |-> t + WindowMs]) @@ h,
          result |-> [allowed |-> TRUE, remaining |-> Max(RateMax - 1, 0),
                      resetAt |-> t + WindowMs]]
    ELSE IF h[key].count >= RateMax
      THEN [hits |-> h,
            result |-> [allowed |-> FALSE, remaining |-> 0,
                        resetAt |-> h[key].resetAt]]
      ELSE [hits |-> [h EXCEPT ![key].count = @ + 1],
            result |-> [allowed |-> TRUE,
                        remaining |-> Max(RateMax - (h[key].count + 1), 0),
                        resetAt |-> h[key].resetAt]]

RateLimitKey(ip, keySuffix) == <<ip, keySuffix>>

\* Retry-After of withRateLimit: ceil(max(resetAt - now, 0) / 1000)
RetryAfterSeconds(resetAt, t) == CeilDiv(Max(resetAt - t, 0), 1000)

\* ------------------------------------------------------------ session store
UrlOf(n) == 100 + n

MemCreateSessionBroken(store, id, ins, t) ==
  [ok |-> TRUE,
   store |-> (id :> [id |-> id, conversationId |-> 0,
                     conversationUrl |-> ins.conversationUrl,
                     status |-> ins.status, createdAt |-> t]) @@ store]

\* MemStorage.createSession: Map.set, overwriting an entry with the same id
MemCreateSession(store, id, ins, t) ==
  [ok |-> TRUE,
   store |-> (id :> [id |-> id, conversationId |-> ins.conversationId,
                     conversationUrl |-> ins.conversationUrl,
                     status |-> ins.status, createdAt |-> t]) @@ store]

\* SupabaseStorage.createSession: an INSERT; the primary key rejects a second
\* row with the same id and a failed request makes supabaseRest throw.
SupabaseCreateSession(store, id, ins, t, dbOk) ==
  IF id \in DOMAIN store \/ ~dbOk
    THEN [ok |-> FALSE, store |-> store]
    ELSE [ok |-> TRUE,
          store |-> (id :> [id |-> id, conversationId |-> ins.conversationId,
                            conversationUrl |-> ins.conversationUrl,
                            status |-> ins.status, createdAt |-> t]) @@ store]

\* whether the database accepts a request; the in-memory Map always does
DbAnswers == IF env.backend = "supabase" THEN BOOLEAN ELSE {TRUE}

CreateSession(store, id, ins, t, dbOk) ==
  IF env.backend = "mem" THEN MemCreateSession(store, id, ins, t)
  ELSE SupabaseCreateSession(store, id, ins, t, dbOk)

\* storage.getSession, as <<>> (undefined) or <<session>>
GetSession(store, id) == IF id \in DOMAIN store THEN <<store[id]>> ELSE <<>>

\* the fields updateSession may name, and the partial sessions the model
\* passes: some of the fields, each null (0, "") or a value
PartialKeys == {"conversationId", "conversationUrl", "status"}
Partials ==
  {[status |-> "ended"], [status |-> ""], [conversationId |-> 0],
   [conversationId |-> 7, conversationUrl |-> UrlOf(7)]}
\* the InsertSession createSession is called with for a session id
Inserts(id) ==
  LET n == IF id = "s1" THEN 5 ELSE 6
  IN {[conversationId |-> n, conversationUrl |-> UrlOf(n),
       status |-> "active"]}

\* a nullish value: null or undefined
Nullish(partial, k) ==
  ~Has(partial, k) \/ (IF k = "status" THEN partial[k] = "" ELSE partial[k] = 0)

MemUpdateSessionBroken(store, id, partial) ==
  LET existing == IF id \in DOMAIN store THEN store[id]
                  ELSE [id |-> id, conversationId |-> 0, conversationUrl |-> 0,
                        status |-> "", createdAt |-> 0]
      updated == [k \in DOMAIN existing |->
                    IF k \in PartialKeys /\ ~Nullish(partial, k)
                      THEN partial[k] ELSE existing[k]]
  IN [ok |-> TRUE, result |-> <<updated>>,
      store |-> (id :> updated) @@ store]

\* MemStorage.updateSession: undefined when the id is not in the Map, else
\* the entry with each named field that is not nullish replaced (??)
MemUpdateSession(store, id, partial) ==
  IF id \notin DOMAIN store
    THEN [ok |-> TRUE, result |-> <<>>, store |-> store]
    ELSE LET existing == store[id]
             updated == [k \in DOMAIN existing |->
                           IF k \in PartialKeys /\ ~Nullish(partial, k)
                             THEN partial[k] ELSE existing[k]]
         IN [ok |-> TRUE, result |-> <<updated>>,
             store |-> [store EXCEPT ![id] = updated]]

SupabaseUpdateSessionBroken(store, id, partial, dbOk) ==
  IF ~dbOk THEN [ok |-> FALSE, result |-> <<>>, store |-> store]
  ELSE IF id \notin DOMAIN store
    THEN [ok |-> TRUE, result |-> <<>>, store |-> store]
    ELSE LET existing == store[id]
             updated == [k \in DOMAIN existing |->
                           IF k \in PartialKeys /\ Has(partial, k)
                             THEN partial[k] ELSE existing[k]]
         IN [ok |-> TRUE, result |-> <<updated>>,
             store |-> (id :> updated)]

\* SupabaseStorage.updateSession: PATCH ?id=eq.<id> with the columns of
\* mapPartialSession (every key present in the partial, null included);
\* undefined when no row matched; supabaseRest throws on a failed request.
SupabaseUpdateSession(store, id, partial, dbOk) ==
  IF ~dbOk THEN [ok |-> FALSE, result |-> <<>>, store |-> store]
  ELSE IF id \notin DOMAIN store
    THEN [ok |-> TRUE, result |-> <<>>, store |-> store]
    ELSE LET existing == store[id]
             updated == [k \in DOMAIN existing |->
                           IF k \in PartialKeys /\ Has(partial, k)
                             THEN partial[k] ELSE existing[k]]
         IN [ok |-> TRUE, result |-> <<updated>>,
             store |-> [store EXCEPT ![id] = updated]]

UpdateSession(store, id, partial, dbOk) ==
  IF env.backend = "mem" THEN MemUpdateSession(store, id, partial)
  ELSE SupabaseUpdateSession(store, id, partial, dbOk)

\* MemStorage.getSessionByConversationId: the first entry of the Map with
\* that conversationId (conversation ids are unique in the stores modelled)
MemGetSessionByConversationId(store, conversationId) ==
  LET found == {id \in DOMAIN store :
                  store[id].conversationId = conversationId}
  IN [ok |-> TRUE,
      result |-> IF found = {} THEN <<>>
                 ELSE <<store[CHOOSE id \in found : TRUE]>>]

\* SupabaseStorage.getSessionByConversationId: iterates this.sessions, a
\* field the class does not have, so the call throws a TypeError
SupabaseGetSessionByConversationId(store, conversationId) ==
  [ok |-> FALSE, result |-> <<>>]

GetSessionByConversationId(store, conversationId) ==
  IF env.backend = "mem"
    THEN MemGetSessionByConversationId(store, conversationId)
    ELSE SupabaseGetSessionByConversationId(store, conversationId)

\* conversation ids as the vendor issues them: no two sessions share one
UniqueConversationIds(store) ==
  \A a, b \in DOMAIN store :
    (a # b /\ store[a].conversationId # 0) =>
      store[a].conversationId # store[b].conversationId

\* ------------------------------------------------------------------ vendor
\* The JSON of a 2xx vendor answer for conversation n.
TavusData(n, urlField, idField, vstatus) ==
  [conversation_url |-> IF urlField = "conversation_url" THEN UrlOf(n) ELSE 0,
   url |-> IF urlField = "url" THEN UrlOf(n) ELSE 0,
   link |-> IF urlField = "link" THEN UrlOf(n) ELSE 0,
   conversation_id |-> IF idField = "conversation_id" THEN n ELSE 0,
   id |-> IF idField = "id" THEN n ELSE 0,
   status |-> vstatus]

\* A 2xx answer names the url and the id by any of the spellings the handler
\* accepts, or leaves one out; an error answer has a status and a body.
VendorOutcomes ==
  {o \in [ok : {TRUE}, status : {200}, urlField : UrlFields,
          idField : IdFields, vstatus : VendorStatuses,
          maxConcurrent : {FALSE}] :
     /\ o.urlField = "conversation_url" \/ o.idField = "conversation_id"
     /\ o.vstatus # "" => (o.urlField = "conversation_url"
                           /\ o.idField = "conversation_id")}
  \cup
  [ok : {FALSE}, status : VendorErrorStatuses, urlField : {"none"},
   idField : {"none"}, vstatus : {""}, maxConcurrent : BOOLEAN]

ExtractUrlBroken(d) ==
  IF d.conversation_url # 0 THEN d.conversation_url
  ELSE IF d.url # 0 THEN d.url
  ELSE IF d.link # 0 THEN d.link ELSE UrlOf(0)

\* tavusData.conversation_url || tavusData.url || tavusData.link || null
ExtractUrl(d) ==
  IF d.conversation_url # 0 THEN d.conversation_url
  ELSE IF d.url # 0 THEN d.url
  ELSE IF d.link # 0 THEN d.link ELSE 0

\* tavusData.conversation_id || tavusData.id || null
ExtractId(d) ==
  IF d.conversation_id # 0 THEN d.conversation_id
  ELSE IF d.id # 0 THEN d.id ELSE 0

VendorErrorResponseBroken(out) ==
  [status |-> 500,
   body |-> [error |-> "Failed to create Tavus conversation",
             details |-> [maxConcurrent |-> out.maxConcurrent]]]

\* the !tavusResponse.ok branch: the vendor's status with {error, details}
VendorErrorResponse(out) ==
  [status |-> out.status,
   body |-> [error |-> "Failed to create Tavus conversation",
             details |-> [maxConcurrent |-> out.maxConcurrent]]]

FetchVendorBroken(calls) == calls + 2

\* await fetch("https://tavusapi.com/v2/conversations"): one request sent
FetchVendor(calls) == calls + 1

\* --------------------------------------------------- POST /api/conversations
Idle == [pc |-> "idle"]
NoRequest == [op |-> "none"]

ReqBodies ==
  [sessionId : SessionIds, hasIds : BOOLEAN] \cup [hasIds : {FALSE}]

\* The apps table as fetchConversationConfig reads it: per slug, whether the
\* app's replica row names a Tavus replica or persona, and
\* conversation_duration_seconds (0 for null).
Apps ==
  ("booth" :> [hasIds |-> TRUE, conversationDurationSeconds |-> 0])
  @@ ("bare" :> [hasIds |-> FALSE, conversationDurationSeconds |-> 0])
  @@ ("long" :> [hasIds |-> TRUE, conversationDurationSeconds |-> 300])
  @@ ("neg" :> [hasIds |-> TRUE, conversationDurationSeconds |-> -1])
AppSlugs == DOMAIN Apps \cup {"ghost"}

\* requests that name an app
AppReqBodies == [sessionId : {"s1"}, hasIds : BOOLEAN, appSlug : AppSlugs]

\* fetchConversationConfig: the row's config, null (<<>>) when no enabled app
\* has the slug; supabaseRest throws when the database request fails.
FetchConversationConfig(slug, dbOk) ==
  IF ~dbOk THEN [ok |-> FALSE, config |-> <<>>]
  ELSE IF slug \in DOMAIN Apps THEN [ok |-> TRUE, config |-> <<Apps[slug]>>]
  ELSE [ok |-> TRUE, config |-> <<>>]

EffectiveIdsBroken(appConfig, body, e) ==
  (appConfig # <<>> /\ appConfig[1].hasIds) \/ body.hasIds \/ e.defaultIds

\* effectivePersonaId || effectiveReplicaId: the app's when there is an app
\* config, otherwise the request's or the environment's
EffectiveIds(appConfig, body, e) ==
  IF appConfig # <<>> THEN appConfig[1].hasIds
  ELSE body.hasIds \/ e.defaultIds

\* maxCallDuration of the vendor payload
MaxCallDuration(appConfig) ==
  IF appConfig # <<>> /\ appConfig[1].conversationDurationSeconds # 0
     /\ appConfig[1].conversationDurationSeconds > 0
    THEN appConfig[1].conversationDurationSeconds
    ELSE 150

\* what the model records about the request a response answers
ConvObs(body, pre, t, calls, vendor) ==
  [sid |-> IF Has(body, "sessionId") THEN body.sessionId ELSE "",
   body |-> body, pre |-> pre, startedAt |-> t, calls |-> calls,
   vendor |-> vendor]

\* The handler up to the vendor fetch: rate limit, body parse, configuration
\* checks, then the request is sent and the handler awaits the answer.
ConvRequest(r, ip, body, dbOk) ==
  /\ reqs[r].pc = "idle"
  /\ LET lim == RateLimiter(hits, RateLimitKey(ip, "public-conversation"), now)
         res == lim.result
         app == IF Has(body, "appSlug")
                  THEN FetchConversationConfig(body.appSlug, dbOk)
                  ELSE [ok |-> TRUE, config |-> <<>>]
         appConfig == app.config
         reply(status, json, retry) ==
           /\ last' = [op |-> "conv", status |-> status, body |-> json,
                       retryAfter |-> retry,
                       req |-> ConvObs(body, <<>>, now, 0, <<>>)]
           /\ UNCHANGED <<reqs, vendorCalls>>
     IN
     /\ hits' = lim.hits
     /\ rl' = [key |-> RateLimitKey(ip, "public-conversation"), at |-> now,
               allowed |-> res.allowed, remaining |-> res.remaining,
               resetAt |-> res.resetAt]
     /\ IF ~res.allowed
          THEN reply(429, [error |-> "Too many requests"],
                     RetryAfterSeconds(res.resetAt, now))
        ELSE IF ~Has(body, "sessionId")
          THEN reply(400, [error |-> "Invalid request data"], -1)
        ELSE IF ~env.apiKey
          THEN reply(500, [error |-> "Server configuration error",
                           message |-> "TAVUS_API_KEY is not configured"], -1)
        ELSE IF ~app.ok
          THEN reply(500, [error |-> "Failed to create conversation",
                           message |-> "supabase error"], -1)
        ELSE IF Has(body, "appSlug") /\ appConfig = <<>>
          THEN reply(404, [error |-> "App not found"], -1)
        ELSE IF ~EffectiveIds(appConfig, body, env)
          THEN reply(400, [error |-> "Missing required identifier",
                           message |-> IF appConfig # <<>>
                                         THEN "App configuration missing Tavus replica or persona ID"
                                         ELSE "Either personaId or replicaId"],
                     -1)
        ELSE /\ vendorCalls < MaxVendorCalls
             /\ vendorCalls' = FetchVendor(vendorCalls)
             /\ reqs' = [reqs EXCEPT ![r] =
                           [pc |-> "vendor", sid |-> body.sessionId,
                            body |-> body,
                            payload |-> [max_call_duration |->
                                           MaxCallDuration(appConfig)],
                            pre |-> GetSession(sessions, body.sessionId),
                            startedAt |-> now, callsBefore |-> vendorCalls]]
             /\ UNCHANGED last
  /\ UNCHANGED <<now, env, sessions, webhookDedupeStore, vendorCount,
                 deliveries, statusLog>>
  /\ UNCHANGED <<conv, timer, video>>

\* The vendor answers and the handler runs to its response.
ConvVendorReply(r, out, dbOk) ==
  /\ reqs[r].pc = "vendor"
  /\ out \in VendorOutcomes
  /\ LET body == [sessionId |-> reqs[r].sid]
         n == vendorCount + 1
         data == TavusData(n, out.urlField, out.idField, out.vstatus)
         conversationUrl == ExtractUrl(data)
         conversationId == ExtractId(data)
         newStatus == IF data.status # "" THEN data.status ELSE "active"
         created == CreateSession(sessions, body.sessionId,
                      [conversationId |-> conversationId,
                       conversationUrl |-> conversationUrl,
                       status |-> newStatus],
                      now, dbOk)
         obs == ConvObs(body, reqs[r].pre, reqs[r].startedAt,
                        vendorCalls - reqs[r].callsBefore,
                        <<[status |-> out.status,
                           maxConcurrent |-> out.maxConcurrent,
                           hasUrl |-> out.urlField # "none",
                           hasId |-> out.idField # "none",
                           payload |-> reqs[r].payload,
                           conversationId |-> IF out.ok THEN n ELSE 0]>>)
         reply(status, json) ==
           last' = [op |-> "conv", status |-> status, body |-> json,
                    retryAfter |-> -1, req |-> obs]
     IN
     IF ~out.ok
       THEN /\ reply(VendorErrorResponse(out).status,
                     VendorErrorResponse(out).body)
            /\ UNCHANGED <<sessions, vendorCount, statusLog>>
     ELSE IF conversationUrl = 0 \/ conversationId = 0
       THEN /\ reply(500, [error |-> "Invalid Tavus API response",
                           message |-> "Missing conversation_url or conversation_id in response"])
            /\ vendorCount' = n
            /\ UNCHANGED <<sessions, statusLog>>
     ELSE IF ~created.ok
       THEN /\ reply(500, [error |-> "Failed to create conversation",
                           message |-> "supabase error"])
            /\ vendorCount' = n
            /\ UNCHANGED <<sessions, statusLog>>
     ELSE /\ reply(200, [sessionId |-> body.sessionId,
                         conversationUrl |-> conversationUrl,
                         conversationId |-> conversationId])
          /\ vendorCount' = n
          /\ sessions' = created.store
          /\ statusLog' = (body.sessionId :>
                             Append(IF body.sessionId \in DOMAIN statusLog
                                      THEN statusLog[body.sessionId]
                                      ELSE <<>>,
                                    created.store[body.sessionId].status))
                          @@ statusLog
  /\ reqs' = [reqs EXCEPT ![r] = Idle]
  /\ UNCHANGED <<now, env, hits, webhookDedupeStore, vendorCalls, deliveries,
                 rl>>
  /\ UNCHANGED <<conv, timer, video>>

\* ----------------------------------------------------------- traffic source
\* Strings are sequences of characters; an optional string is <<>> (absent)
\* or <<string>>.
ValidSources ==
  {<<"n", "f", "c">>, <<"q", "r">>, <<"l", "i", "n", "k">>,
   <<"d", "i", "r", "e", "c", "t">>}
Direct == <<"d", "i", "r", "e", "c", "t">>
LowerLetters == {"c", "d", "e", "f", "i", "k", "l", "n", "q", "r", "t", "w"}
UpperOf ==
  [c \in LowerLetters |->
     CASE c = "c" -> "C" [] c = "d" -> "D" [] c = "e" -> "E" [] c = "f" -> "F"
       [] c = "i" -> "I" [] c = "k" -> "K" [] c = "l" -> "L" [] c = "n" -> "N"
       [] c = "q" -> "Q" [] c = "r" -> "R" [] c = "t" -> "T" [] c = "w" -> "W"]
WhiteSpace == {" ", "\t"}

\* String.prototype.toLowerCase, a character at a time
ToLowerCase(str) ==
  [i \in 1..Len(str) |->
     IF \E c \in LowerLetters : UpperOf[c] = str[i]
       THEN CHOOSE c \in LowerLetters : UpperOf[c] = str[i]
       ELSE str[i]]

RECURSIVE TrimStart(_)
TrimStart(str) ==
  IF str # <<>> /\ Head(str) \in WhiteSpace THEN TrimStart(Tail(str)) ELSE str

RECURSIVE TrimEnd(_)
TrimEnd(str) ==
  IF str # <<>> /\ str[Len(str)] \in WhiteSpace
    THEN TrimEnd(SubSeq(str, 1, Len(str) - 1)) ELSE str

\* String.prototype.trim
Trim(str) == TrimEnd(TrimStart(str))

NormalizeSourceBroken(source) ==
  LET normalized == IF source # <<>> /\ source[1] # <<>>
                      THEN ToLowerCase(source[1]) ELSE Direct
  IN IF normalized \in ValidSources THEN normalized ELSE Direct

\* normalizeSource, and the same three lines of the conversation handler:
\* an absent or empty source is falsy
NormalizeSource(source) ==
  LET normalized == IF source # <<>> /\ source[1] # <<>>
                      THEN ToLowerCase(Trim(source[1])) ELSE Direct
  IN IF normalized \in ValidSources THEN normalized ELSE Direct

\* a string of the request: a spelling of a word in any case, with white
\* space around it, together with the word the spelling is of
Spellings(word) ==
  {[i \in 1..Len(word) |-> IF i \in up THEN UpperOf[word[i]] ELSE word[i]] :
     up \in SUBSET (1..Len(word))}
RECURSIVE Pads(_)
Pads(n) ==
  IF n = 0 THEN {<<>>}
  ELSE Pads(n - 1) \cup {<<w>> \o pad : w \in WhiteSpace, pad \in Pads(n - 1)}
UnknownWords ==
  {<<"w", "e", "b">>, <<"n", "f">>, <<"n", " ", "f", "c">>,
   <<"q", "r", "q", "r">>, <<"l", "i", "n", "k", "-">>, <<"D", "I", "R">>}
SourceInputs ==
  UNION {{[source |-> <<l \o sp \o r>>, word |-> word] :
            l \in Pads(MaxPad), r \in Pads(MaxPad), sp \in Spellings(word)} :
         word \in ValidSources}
  \cup {[source |-> <<l \o u \o r>>, word |-> <<>>] :
          l \in Pads(MaxPad), r \in Pads(MaxPad), u \in UnknownWords \cup {<<>>}}
  \cup {[source |-> <<>>, word |-> <<>>]}

\* The conversation handler's use of source: trafficSource goes into the
\* vendor's conversation_name and into the session handed to createSession.
ConvSource(input) ==
  /\ last.op = "none"
  /\ LET trafficSource == NormalizeSource(input.source)
     IN last' = [op |-> "source", req |-> input,
                 conversationName |-> <<"AI Conversation", trafficSource>>,
                 insert |-> [source |-> trafficSource],
                 again |-> <<>>]
  /\ UNCHANGED <<now, env, sessions, hits, webhookDedupeStore, reqs,
                 vendorCalls, vendorCount, deliveries, statusLog, rl>>
  /\ UNCHANGED <<conv, timer, video>>

\* the stored source sent back as the source of a later request
ConvSourceAgain ==
  /\ last.op = "source" /\ last.again = <<>>
  /\ last' = [last EXCEPT !.again = <<NormalizeSource(<<last.insert.source>>)>>]
  /\ UNCHANGED <<now, env, sessions, hits, webhookDedupeStore, reqs,
                 vendorCalls, vendorCount, deliveries, statusLog, rl>>
  /\ UNCHANGED <<conv, timer, video>>

\* ------------------------------------------- POST /api/webhook/conversation-ended
\* createHmac("sha256", secret).update(rawBody).digest("hex")
Hmac(secret, rawBody) == <<"hmac-sha256", secret, rawBody>>
\* createHash("sha256").update(rawBody).digest("hex")
Sha256(rawBody) == <<"sha256", rawBody>>

\* an x-tavus-signature header: <<>> when missing or empty
NoSignature == <<>>
Forged == <<"forged">>
WebhookBodies == [event_type : EventTypes, conversation_id : {1}]
Signatures ==
  {NoSignature, Forged} \cup {Hmac(WebhookSecret, b) : b \in WebhookBodies}

GetWebhookDedupeKeyBroken(signature, rawBody) == <<"body", Sha256(rawBody)>>

\* getWebhookDedupeKey: 'sig:' + header, or 'body:' + hash of the raw body
GetWebhookDedupeKey(signature, rawBody) ==
  IF Len(signature) > 0 THEN <<"sig", signature>>
  ELSE <<"body", Sha256(rawBody)>>

IsDuplicateWebhookBroken(store, key, t) ==
  IF key \in DOMAIN store /\ store[key] # 0 /\ store[key] < t
    THEN [duplicate |-> TRUE, store |-> store]
    ELSE [duplicate |-> FALSE, store |-> (key :> (t + DedupeTtlMs)) @@ store]

\* isDuplicateWebhook: the answer and the Map it leaves
IsDuplicateWebhook(store, key, t) ==
  IF key \in DOMAIN store /\ store[key] # 0 /\ store[key] > t
    THEN [duplicate |-> TRUE, store |-> store]
    ELSE [duplicate |-> FALSE, store |-> (key :> (t + DedupeTtlMs)) @@ store]

VerifyWebhookSignature(signature, rawBody, secret) ==
  IF Len(signature) = 0 THEN FALSE
  ELSE signature = Hmac(secret, rawBody)

WebhookAnswerBroken(e, signature, rawBody) ==
  IF e.secret /\ ~VerifyWebhookSignature(signature, rawBody, WebhookSecret)
    THEN [status |-> 401, body |-> [error |-> "Invalid signature"]]
    ELSE [status |-> 200, body |-> [received |-> TRUE]]

\* the handler's answer once the delivery is not a duplicate
WebhookAnswer(e, signature, rawBody) ==
  IF e.secret /\ e.verify
     /\ ~VerifyWebhookSignature(signature, rawBody, WebhookSecret)
    THEN [status |-> 401, body |-> [error |-> "Invalid signature"]]
    ELSE [status |-> 200, body |-> [received |-> TRUE]]

Webhook(signature, rawBody) ==
  /\ deliveries < MaxDeliveries
  /\ deliveries' = deliveries + 1
  /\ LET dedupeKey == GetWebhookDedupeKey(signature, rawBody)
         dup == IsDuplicateWebhook(webhookDedupeStore, dedupeKey, now)
         answer == IF dup.duplicate
                     THEN [status |-> 200,
                           body |-> [received |-> TRUE, duplicate |-> TRUE]]
                     ELSE WebhookAnswer(env, signature, rawBody)
     IN
     /\ webhookDedupeStore' = dup.store
     /\ last' = [op |-> "webhook", status |-> answer.status,
                 body |-> answer.body, retryAfter |-> -1,
                 req |-> [signature |-> signature, rawBody |-> rawBody,
                          at |-> now,
                          expiry |-> IF dedupeKey \in DOMAIN webhookDedupeStore
                                       THEN webhookDedupeStore[dedupeKey]
                                       ELSE 0]]
  /\ UNCHANGED <<now, env, sessions, hits, reqs, vendorCalls, vendorCount,
                 statusLog, rl>>
  /\ UNCHANGED <<conv, timer, video>>

\* ------------------------------------------------- the storage interface
\* A call of the exported storage object; last holds what the call returned
\* (ok FALSE: the call threw).
StoreAnswer(name, id, ok, result) ==
  [op |-> "store", name |-> name, id |-> id, ok |-> ok, result |-> result]

StoreGet(id, dbOk) ==
  /\ last' = StoreAnswer("getSession", id, dbOk,
                         IF dbOk THEN GetSession(sessions, id) ELSE <<>>)
  /\ UNCHANGED <<now, env, sessions, hits, webhookDedupeStore, reqs,
                 vendorCalls, vendorCount, deliveries, statusLog, rl>>
  /\ UNCHANGED <<conv, timer, video>>

StoreGetByConversationId(conversationId) ==
  /\ LET got == GetSessionByConversationId(sessions, conversationId)
     IN last' = [op |-> "store", name |-> "getSessionByConversationId",
                 conversationId |-> conversationId, ok |-> got.ok,
                 result |-> got.result]
  /\ UNCHANGED <<now, env, sessions, hits, webhookDedupeStore, reqs,
                 vendorCalls, vendorCount, deliveries, statusLog, rl>>
  /\ UNCHANGED <<conv, timer, video>>

StoreCreate(id, ins, dbOk) ==
  /\ LET created == CreateSession(sessions, id, ins, now, dbOk)
     IN /\ UniqueConversationIds(created.store)
        /\ sessions' = created.store
        /\ last' = StoreAnswer("createSession", id, created.ok,
                               IF created.ok THEN <<created.store[id]>>
                               ELSE <<>>)
  /\ UNCHANGED <<now, env, hits, webhookDedupeStore, reqs, vendorCalls,
                 vendorCount, deliveries, statusLog, rl>>
  /\ UNCHANGED <<conv, timer, video>>

StoreUpdate(id, partial, dbOk) ==
  /\ LET updated == UpdateSession(sessions, id, partial, dbOk)
     IN /\ UniqueConversationIds(updated.store)
        /\ sessions' = updated.store
        /\ last' = StoreAnswer("updateSession", id, updated.ok,
                               updated.result)
  /\ UNCHANGED <<now, env, hits, webhookDedupeStore, reqs, vendorCalls,
                 vendorCount, deliveries, statusLog, rl>>
  /\ UNCHANGED <<conv, timer, video>>

\* ------------------------------------------- AIConversationInterface
\* The component before it is mounted.  guard tells the versions of the
\* component apart: with createInFlightRef and lastSessionRef, or without.
NoComponent == [mounted |-> FALSE]
ClientSessionIds == SessionIds \cup {"unknown"}

\* createConversation up to its await: the component state it leaves and
\* whether it sends the POST
CreateConversation(c) ==
  IF c.guard /\ c.createInFlightRef
    THEN [conv |-> c, sends |-> FALSE]
    ELSE [conv |-> [c EXCEPT !.createInFlightRef = c.guard,
                             !.isLoading = TRUE, !.error = FALSE,
                             !.conversationUrl =
                               IF c.guard THEN 0 ELSE c.conversationUrl],
          sends |-> TRUE]

\* useEffect(..., [sessionId])
SessionEffect(c) ==
  IF ~c.guard THEN CreateConversation(c)
  ELSE IF c.sessionId = "unknown"
    THEN [conv |-> [c EXCEPT !.error = TRUE, !.isLoading = FALSE],
          sends |-> FALSE]
  ELSE IF c.lastSessionRef = c.sessionId THEN [conv |-> c, sends |-> FALSE]
  ELSE CreateConversation([c EXCEPT !.lastSessionRef = c.sessionId])

\* The parent renders the component with sessionId = sid: a mount, or a
\* change of the prop, after which the effect on [sessionId] runs.
ClientRender(guard, sid) ==
  /\ conv.mounted => (conv.guard = guard /\ conv.sessionId # sid)
  /\ LET c == IF conv.mounted THEN [conv EXCEPT !.sessionId = sid]
              ELSE [mounted |-> TRUE, guard |-> guard, sessionId |-> sid,
                    lastSessionRef |-> "", createInFlightRef |-> FALSE,
                    isLoading |-> TRUE, error |-> FALSE,
                    conversationUrl |-> 0, pending |-> <<>>, posts |-> 0]
         eff == SessionEffect(c)
     IN /\ eff.sends => c.posts < MaxPosts
        /\ conv' = IF eff.sends
                     THEN [eff.conv EXCEPT !.pending = Append(@, sid),
                                           !.posts = @ + 1]
                     ELSE eff.conv
  /\ UNCHANGED serverVars
  /\ UNCHANGED <<timer, video>>

\* data.conversationUrl of the answer to a POST for session sid
ClientUrlOf(sid) == UrlOf(IF sid = "s1" THEN 1 ELSE IF sid = "s2" THEN 2 ELSE 3)

\* The answer to the i-th POST in flight arrives: createConversation resumes
\* after its await and runs to its end.
ClientSettle(i, ok) ==
  /\ conv.mounted
  /\ i \in 1..Len(conv.pending)
  /\ conv' = [conv EXCEPT
       !.pending = SubSeq(@, 1, i - 1) \o SubSeq(@, i + 1, Len(@)),
       !.conversationUrl = IF ok THEN ClientUrlOf(conv.pending[i]) ELSE @,
       !.error = IF ok THEN @ ELSE TRUE,
       !.isLoading = FALSE,
       !.createInFlightRef = FALSE]
  /\ UNCHANGED serverVars
  /\ UNCHANGED <<timer, video>>

\* --------------------------------------------------------- ConversationTimer
\* no timer on screen yet
NoTimer ==
  [mounted |-> FALSE, location |-> "/conversation", duration |-> 0,
   timeRemaining |-> 0, interval |-> FALSE, effectPending |-> FALSE,
   onEndCalls |-> 0, onCompleteCalls |-> 0, endedBy |-> "none", ticks |-> 0]

TimerStepBroken(prev) == IF prev <= 1 THEN 0 ELSE prev - 2

\* the updater passed to setTimeRemaining by the interval callback
TimerStep(prev) == IF prev <= 1 THEN 0 ELSE prev - 1

\* The conversation comes on screen: the timer mounts with
\* useState(duration) and its effect is scheduled.
TimerMount(duration) ==
  /\ ~timer.mounted /\ timer.location = "/conversation"
  /\ timer' = [mounted |-> TRUE, location |-> "/conversation",
               duration |-> duration, timeRemaining |-> duration,
               interval |-> FALSE, effectPending |-> TRUE, onEndCalls |-> 0,
               onCompleteCalls |-> 0, endedBy |-> "none", ticks |-> 0]
  /\ UNCHANGED serverVars
  /\ UNCHANGED <<conv, video>>

HandleConversationEndBroken(t, by) ==
  [t EXCEPT !.effectPending = FALSE, !.onEndCalls = @ + 1,
            !.onCompleteCalls = IF by = "timer" THEN @ + 1 ELSE @,
            !.endedBy = by]

\* Conversation.handleConversationEnd, reached as onEnd / onComplete:
\* setLocation('/thank-you') leaves the page, which unmounts the timer and
\* runs the effect's cleanup.
HandleConversationEnd(t, by) ==
  [t EXCEPT !.location = "/thank-you", !.mounted = FALSE,
            !.interval = FALSE, !.effectPending = FALSE,
            !.onEndCalls = @ + 1,
            !.onCompleteCalls = IF by = "timer" THEN @ + 1 ELSE @,
            !.endedBy = by]

\* useEffect(..., [timeRemaining, onComplete]): the cleanup of the previous
\* run, then onComplete() at zero or a new interval
TimerEffect ==
  /\ timer.mounted /\ timer.effectPending
  /\ timer' = IF timer.timeRemaining <= 0
                THEN HandleConversationEnd(timer, "timer")
                ELSE [timer EXCEPT !.interval = TRUE,
                                   !.effectPending = FALSE]
  /\ UNCHANGED serverVars
  /\ UNCHANGED <<conv, video>>

\* the interval callback, one second after the interval was set or last fired
TimerTick ==
  /\ timer.mounted /\ timer.interval
  /\ timer' = [timer EXCEPT
       !.timeRemaining = TimerStep(@),
       !.interval = ~(timer.timeRemaining <= 1),
       !.effectPending = TRUE,
       !.ticks = @ + 1]
  /\ UNCHANGED serverVars
  /\ UNCHANGED <<conv, video>>

\* The parent renders again: onEnd is a new function, so the timer's effect
\* is scheduled again.
TimerRerender ==
  /\ timer.mounted /\ ~timer.effectPending
  /\ timer' = [timer EXCEPT !.effectPending = TRUE]
  /\ UNCHANGED serverVars
  /\ UNCHANGED <<conv, video>>

\* the End button: handleEndConversation calls onEnd()
ClickEnd ==
  /\ timer.mounted
  /\ timer' = HandleConversationEnd(timer, "click")
  /\ UNCHANGED serverVars
  /\ UNCHANGED <<conv, video>>

\* ------------------------------------------------------ DailyVideoInterface
\* The component before it is mounted.  runs holds one entry per run of the
\* effect on [conversationUrl, handleError, updateVideo]: where its
\* initializeCall stands (pc), the call object of its closure (obj) and the
\* participants() of that object.  callObjectRef is the number of the run
\* whose object the ref holds, 0 for null.
NoVideo ==
  [mounted |-> FALSE, mountedRef |-> TRUE, connectionState |-> "initializing",
   hasRemoteVideo |-> FALSE, srcObject |-> {}, callObjectRef |-> 0,
   runs |-> <<>>]

LocalParticipant == [local |-> TRUE, videoTrack |-> TRUE, audioTrack |-> TRUE]
RemoteParticipants ==
  [local : {FALSE}, videoTrack : BOOLEAN, audioTrack : BOOLEAN]

Alive(run) == run.obj \in {"joining", "joined"}

\* videoRef.current: the <video> element exists only in the connected view
VideoRef(v) == v.mounted /\ v.connectionState = "connected"

\* the tracks of a participant that are present
TracksOf(p) ==
  (IF p.videoTrack THEN {"video"} ELSE {})
  \cup (IF p.audioTrack THEN {"audio"} ELSE {})

UpdateVideoBroken(v, participants) ==
  IF ~VideoRef(v) \/ ~v.mountedRef THEN v
  ELSE LET remoteParticipants == SelectSeq(participants, LAMBDA p : ~p.local)
       IN IF Len(remoteParticipants) = 0
            THEN [v EXCEPT !.hasRemoteVideo = FALSE, !.srcObject = {}]
          ELSE LET aiAgent == remoteParticipants[1]
               IN IF TracksOf(aiAgent) # {}
                    THEN [v EXCEPT !.hasRemoteVideo = TRUE,
                                   !.srcObject = TracksOf(aiAgent)]
                    ELSE [v EXCEPT !.hasRemoteVideo = FALSE,
                                   !.srcObject = {}]

\* updateVideo(participants)
UpdateVideo(v, participants) ==
  IF ~VideoRef(v) \/ ~v.mountedRef THEN v
  ELSE LET remoteParticipants == SelectSeq(participants, LAMBDA p : ~p.local)
       IN IF Len(remoteParticipants) = 0
            THEN [v EXCEPT !.hasRemoteVideo = FALSE, !.srcObject = {}]
          ELSE LET aiAgent == remoteParticipants[1]
               IN IF aiAgent.videoTrack
                    THEN [v EXCEPT !.hasRemoteVideo = TRUE,
                                   !.srcObject = TracksOf(aiAgent)]
                    ELSE [v EXCEPT !.hasRemoteVideo = FALSE,
                                   !.srcObject = IF aiAgent.audioTrack
                                                   THEN {"audio"} ELSE {}]

\* handleError: setErrorMessage and setConnectionState('error')
HandleError(v) == [v EXCEPT !.connectionState = "error"]

\* callObject.destroy() on the object of run k
DestroyCallObject(runs, k) ==
  IF Alive(runs[k])
    THEN [runs EXCEPT ![k].obj = "destroyed", ![k].participants = <<>>]
    ELSE runs

\* initializeCall of run k from DailyIframe.createCallObject up to the await
\* of join().  createCallObject may throw while another call object exists
\* (duplicate instance), which the catch block hands to handleError.
CreateAndJoin(v, k, throws) ==
  IF throws /\ \E j \in 1..Len(v.runs) : Alive(v.runs[j])
    THEN LET w == [v EXCEPT !.runs[k].pc = "done"]
         IN IF w.mountedRef THEN HandleError(w) ELSE w
    ELSE [v EXCEPT !.runs[k].obj = "joining", !.runs[k].pc = "awaitJoin",
                   !.callObjectRef = k]

\* A run of the effect: mountedRef.current = true, then initializeCall up to
\* its first await: of destroy() on the object the ref still holds, or of
\* join() on a new object.
RunEffect(v, throws) ==
  LET k == Len(v.runs) + 1
      w == [v EXCEPT !.mountedRef = TRUE, !.connectionState = "joining",
                     !.runs = Append(@, [pc |-> "awaitDestroy", obj |-> "none",
                                         participants |-> <<>>])]
  IN IF w.callObjectRef # 0
       THEN [w EXCEPT !.runs = DestroyCallObject(@, w.callObjectRef)]
       ELSE CreateAndJoin(w, k, throws)

\* the cleanup of the latest run of the effect
EffectCleanup(v) ==
  LET k == Len(v.runs)
  IN [v EXCEPT !.mountedRef = FALSE,
               !.runs = IF v.runs[k].obj # "none"
                          THEN DestroyCallObject(@, k) ELSE @]

VideoMount(throws) ==
  /\ ~video.mounted /\ video.runs = <<>>
  /\ video' = RunEffect([video EXCEPT !.mounted = TRUE], throws)
  /\ UNCHANGED serverVars
  /\ UNCHANGED <<conv, timer>>

\* conversationUrl or onError changed: cleanup, then the effect again
VideoRerun(throws, maxRuns) ==
  /\ video.mounted /\ Len(video.runs) < maxRuns
  /\ video' = RunEffect(EffectCleanup(video), throws)
  /\ UNCHANGED serverVars
  /\ UNCHANGED <<conv, timer>>

VideoUnmount ==
  /\ video.mounted
  /\ video' = [EffectCleanup(video) EXCEPT !.mounted = FALSE]
  /\ UNCHANGED serverVars
  /\ UNCHANGED <<conv, timer>>

\* initializeCall of run k resumes after await callObjectRef.current.destroy()
ResumeAfterDestroy(k, throws) ==
  /\ k \in 1..Len(video.runs) /\ video.runs[k].pc = "awaitDestroy"
  /\ video' = CreateAndJoin([video EXCEPT !.callObjectRef = 0], k, throws)
  /\ UNCHANGED serverVars
  /\ UNCHANGED <<conv, timer>>

\* join() of run k's object settles: 'joined-meeting' and the promise
\* resolves, or it rejects and the catch block runs; the join of a destroyed
\* object never joins the meeting.
JoinSettles(k, ok) ==
  /\ k \in 1..Len(video.runs) /\ video.runs[k].pc = "awaitJoin"
  /\ LET v == [video EXCEPT !.runs[k].pc = "done"]
     IN video' =
          IF ok /\ v.runs[k].obj = "joining"
            THEN [v EXCEPT !.runs[k].obj = "joined",
                           !.runs[k].participants = <<LocalParticipant>>,
                           !.connectionState =
                             IF v.mountedRef THEN "connected" ELSE @]
          ELSE IF ok THEN v
          ELSE IF v.mountedRef THEN HandleError(v) ELSE v
  /\ UNCHANGED serverVars
  /\ UNCHANGED <<conv, timer>>

\* The handler shared by participant-joined, participant-updated,
\* participant-left, track-started and track-stopped of run k's object, whose
\* participants() are now ps.
ParticipantEvent(k, ps) ==
  LET v == [video EXCEPT !.runs[k].participants = ps]
  IN /\ video' = IF v.mountedRef THEN UpdateVideo(v, ps) ELSE v
     /\ UNCHANGED serverVars
     /\ UNCHANGED <<conv, timer>>

Joined(k) == k \in 1..Len(video.runs) /\ video.runs[k].obj = "joined"

ParticipantJoined(k, p) ==
  /\ Joined(k) /\ Len(video.runs[k].participants) < 1 + MaxRemotes
  /\ ParticipantEvent(k, Append(video.runs[k].participants, p))

ParticipantLeft(k, i) ==
  /\ Joined(k) /\ i \in 2..Len(video.runs[k].participants)
  /\ LET ps == video.runs[k].participants
     IN ParticipantEvent(k, SubSeq(ps, 1, i - 1) \o SubSeq(ps, i + 1, Len(ps)))

\* track-started / track-stopped (and the participant-updated that follows)
\* for a track of the i-th participant, a remote one
TrackChanged(k, i, kind, on) ==
  /\ Joined(k) /\ i \in 2..Len(video.runs[k].participants)
  /\ LET ps == video.runs[k].participants
     IN /\ ps[i][kind] # on
        /\ ParticipantEvent(k, [ps EXCEPT ![i][kind] = on])

\* the 'error' and 'camera-error' events of run k's object
DailyError(k) ==
  /\ k \in 1..Len(video.runs) /\ Alive(video.runs[k])
  /\ video.mountedRef /\ video.connectionState # "error"
  /\ video' = HandleError(video)
  /\ UNCHANGED serverVars
  /\ UNCHANGED <<conv, timer>>

\* ------------------------------------------------------------------- clock
Tick ==
  /\ now < MaxTime
  /\ now' = now + 1
  /\ UNCHANGED <<env, sessions, hits, webhookDedupeStore, reqs, vendorCalls,
                 vendorCount, deliveries, statusLog, rl, last>>
  /\ UNCHANGED <<conv, timer, video>>

\* ----------------------------------------------------------- specification
Envs ==
  [apiKey : BOOLEAN, defaultIds : BOOLEAN, secret : BOOLEAN, verify : BOOLEAN,
   backend : {"mem", "supabase"}]

InitWith(E, stored) ==
  /\ now = 0
  /\ env \in E
  /\ sessions \in stored
  /\ hits = <<>>
  /\ webhookDedupeStore = <<>>
  /\ reqs = [r \in Reqs |-> Idle]
  /\ vendorCalls = 0
  /\ vendorCount = Cardinality(DOMAIN sessions)
  /\ deliveries = 0
  /\ statusLog = [sid \in DOMAIN sessions |-> <<sessions[sid].status>>]
  /\ rl = [key |-> <<>>, at |-> 0, allowed |-> TRUE, remaining |-> 0,
           resetAt |-> 0]
  /\ last = NoRequest
  /\ conv = NoComponent
  /\ timer = NoTimer
  /\ video = NoVideo

\* The conversation endpoint serving one request at a time from one address.
Init == InitWith({e \in Envs : ~e.secret /\ ~e.verify}, {<<>>})

Next ==
  \/ \E body \in ReqBodies : ConvRequest("r1", "ip1", body, TRUE)
  \/ \E out \in VendorOutcomes, dbOk \in DbAnswers :
       ConvVendorReply("r1", out, dbOk)
  \/ Tick

Spec == Init /\ [][Next]_vars

\* The conversation limiter under requests for session s1 from every address,
\* on a configured server whose vendor answers with a status and a body.
InitLimiter ==
  InitWith({e \in Envs : e.apiKey /\ e.defaultIds /\ e.backend = "mem"
                          /\ ~e.secret /\ ~e.verify}, {<<>>})

NextLimiter ==
  \/ \E ip \in Ips, body \in {b \in ReqBodies : ~b.hasIds
                                    /\ (Has(b, "sessionId") => b.sessionId = "s1")} :
       ConvRequest("r1", ip, body, TRUE)
  \/ \E out \in {o \in VendorOutcomes :
                    o.ok => o.urlField = "url" /\ o.idField = "id"
                            /\ o.vstatus = ""} :
       ConvVendorReply("r1", out, TRUE)
  \/ Tick

SpecLimiter == InitLimiter /\ [][NextLimiter]_vars

\* The webhook endpoint of a server started on the durable store, which may
\* already hold the session of an earlier conversation.
StoredSession ==
  [id |-> "s1", conversationId |-> 1, conversationUrl |-> UrlOf(1),
   status |-> "active", createdAt |-> 0]

InitWebhook ==
  InitWith({e \in Envs : e.apiKey /\ e.defaultIds /\ e.backend = "supabase"
                          /\ (e.verify => e.secret)},
           {<<>>, "s1" :> StoredSession})

NextWebhook ==
  \/ \E signature \in Signatures, rawBody \in WebhookBodies :
       Webhook(signature, rawBody)
  \/ Tick

SpecWebhook == InitWebhook /\ [][NextWebhook]_vars

\* The conversation endpoint under requests for session s1 that may name an
\* app, with the apps table reachable or not.
InitApp ==
  InitWith({e \in Envs : e.backend = "supabase" /\ ~e.secret /\ ~e.verify},
           {<<>>})

NextApp ==
  \/ \E body \in AppReqBodies \cup {b \in ReqBodies : Has(b, "sessionId")
                                                      /\ b.sessionId = "s1"},
        dbOk \in BOOLEAN :
       ConvRequest("r1", "ip1", body, dbOk)
  \/ \E out \in {o \in VendorOutcomes :
                    /\ o.ok => o.urlField = "conversation_url"
                               /\ o.idField = "conversation_id"
                               /\ o.vstatus = ""
                    /\ ~o.ok => o.status = 400 /\ ~o.maxConcurrent},
        dbOk \in BOOLEAN :
       ConvVendorReply("r1", out, dbOk)
  \/ Tick

SpecApp == InitApp /\ [][NextApp]_vars

\* The storage object under direct calls, on either implementation.
InitStore ==
  InitWith({e \in Envs : e.apiKey /\ e.defaultIds /\ ~e.secret /\ ~e.verify},
           {<<>>})

NextStore ==
  \/ \E id \in SessionIds, dbOk \in DbAnswers : StoreGet(id, dbOk)
  \/ \E conversationId \in {5, 7} : StoreGetByConversationId(conversationId)
  \/ \E id \in SessionIds : \E ins \in Inserts(id), dbOk \in DbAnswers :
       StoreCreate(id, ins, dbOk)
  \/ \E id \in SessionIds, partial \in Partials, dbOk \in DbAnswers :
       StoreUpdate(id, partial, dbOk)
  \/ Tick

SpecStore == InitStore /\ [][NextStore]_vars

\* A server's whole life on either store: conversations created for session
\* s1, a session s2 created and sessions updated through the storage object,
\* webhook deliveries.
InitLife ==
  InitWith({e \in Envs : e.apiKey /\ e.defaultIds /\ ~e.secret /\ ~e.verify},
           {<<>>})

NextLife ==
  \/ ConvRequest("r1", "ip1", [sessionId |-> "s1", hasIds |-> FALSE], TRUE)
  \/ \E out \in {o \in VendorOutcomes :
                    /\ o.ok /\ o.urlField = "conversation_url"
                    /\ o.idField = "conversation_id" /\ o.vstatus = ""},
        dbOk \in DbAnswers :
       ConvVendorReply("r1", out, dbOk)
  \/ \E ins \in Inserts("s2"), dbOk \in DbAnswers : StoreCreate("s2", ins, dbOk)
  \/ \E id \in SessionIds, dbOk \in DbAnswers :
       StoreUpdate(id, [status |-> "ended"], dbOk)
  \/ \E rawBody \in {b \in WebhookBodies : b.event_type = "ended"} :
       Webhook(NoSignature, rawBody)
  \/ Tick

SpecLife == InitLife /\ [][NextLife]_vars

\* One AIConversationInterface in the browser, of either version, whose
\* parent may change sessionId and whose POSTs are answered in any order.
InitClient ==
  InitWith({e \in Envs : e.apiKey /\ e.defaultIds /\ ~e.secret /\ ~e.verify
                          /\ e.backend = "supabase"}, {<<>>})

NextClient ==
  \/ \E guard \in BOOLEAN, sid \in ClientSessionIds : ClientRender(guard, sid)
  \/ \E i \in 1..MaxPosts, ok \in BOOLEAN : ClientSettle(i, ok)

SpecClient == InitClient /\ [][NextClient]_vars

\* A conversation on screen: its timer runs until the page is left.  The
\* browser fires a set interval and React runs a scheduled effect.
NextTimer ==
  \/ \E duration \in 1..MaxDuration : TimerMount(duration)
  \/ TimerEffect
  \/ TimerTick
  \/ TimerRerender
  \/ ClickEnd

SpecTimer ==
  /\ InitClient /\ [][NextTimer]_vars
  /\ WF_vars(TimerEffect) /\ WF_vars(TimerTick)

\* One DailyVideoInterface in the browser with the events of its call
\* objects: participants join and leave, tracks start and stop, errors.
NextVideo ==
  \/ \E throws \in BOOLEAN : VideoMount(throws)
  \/ \E throws \in BOOLEAN : VideoRerun(throws, MaxVideoRuns)
  \/ VideoUnmount
  \/ \E k \in 1..MaxVideoRuns, throws \in BOOLEAN : ResumeAfterDestroy(k, throws)
  \/ \E k \in 1..MaxVideoRuns, ok \in BOOLEAN : JoinSettles(k, ok)
  \/ \E k \in 1..MaxVideoRuns, p \in RemoteParticipants : ParticipantJoined(k, p)
  \/ \E k \in 1..MaxVideoRuns, i \in 2..(1 + MaxRemotes) : ParticipantLeft(k, i)
  \/ \E k \in 1..MaxVideoRuns, i \in 2..(1 + MaxRemotes),
        kind \in {"videoTrack", "audioTrack"}, on \in BOOLEAN :
       TrackChanged(k, i, kind, on)
  \/ \E k \in 1..MaxVideoRuns : DailyError(k)

SpecVideo == InitClient /\ [][NextVideo]_vars

\* The call objects of one DailyVideoInterface: its effect runs, is cleaned
\* up and runs again while earlier initializeCall calls are still awaiting.
\* Every awaited destroy() and join() settles.
NextCall ==
  \/ \E throws \in BOOLEAN : VideoMount(throws)
  \/ \E throws \in BOOLEAN : VideoRerun(throws, MaxRuns)
  \/ VideoUnmount
  \/ \E k \in 1..MaxRuns, throws \in BOOLEAN : ResumeAfterDestroy(k, throws)
  \/ \E k \in 1..MaxRuns, ok \in BOOLEAN : JoinSettles(k, ok)
  \/ \E k \in 1..MaxRuns : DailyError(k)

SpecCall ==
  /\ InitClient /\ [][NextCall]_vars
  /\ \A k \in 1..MaxRuns :
       /\ WF_vars(\E throws \in BOOLEAN : ResumeAfterDestroy(k, throws))
       /\ WF_vars(\E ok \in BOOLEAN : JoinSettles(k, ok))

\* The conversation endpoint serving two requests for session s1 at a time:
\* each handler runs up to its await of the vendor and resumes when the
\* vendor answers.
InitRace ==
  InitWith({e \in Envs : e.apiKey /\ e.defaultIds /\ ~e.secret /\ ~e.verify},
           {<<>>})

NextRace ==
  \/ \E r \in Reqs :
       ConvRequest(r, "ip1", [sessionId |-> "s1", hasIds |-> FALSE], TRUE)
  \/ \E r \in Reqs, dbOk \in DbAnswers :
     \E out \in {o \in VendorOutcomes :
                   /\ o.ok => o.urlField = "conversation_url"
                              /\ o.idField = "conversation_id"
                              /\ o.vstatus = ""
                   /\ ~o.ok => o.status = 500 /\ ~o.maxConcurrent} :
       ConvVendorReply(r, out, dbOk)
  \/ Tick

SpecRace == InitRace /\ [][NextRace]_vars

\* The traffic source of a conversation request, for every source string.
NextSource ==
  \/ \E input \in SourceInputs : ConvSource(input)
  \/ ConvSourceAgain

SpecSource == InitClient /\ [][NextSource]_vars

\* ------------------------------------------------------------------ claims
IsVendorError(resp) ==
  /\ resp.op = "conv"
  /\ resp.req.vendor # <<>>
  /\ resp.req.vendor[1].status \notin 200..299

Resumable(resp) ==
  /\ resp.op = "conv"
  /\ resp.req.pre # <<>>
  /\ resp.req.pre[1].status \in {"created", "active"}
  /\ resp.req.pre[1].conversationUrl # 0
  /\ resp.req.pre[1].conversationId # 0
  /\ resp.req.startedAt - resp.req.pre[1].createdAt <= SessionTtlMs

\* C1: a repeated POST /api/conversations for a session id whose stored
\* session is within the TTL, has status created or active and holds a
\* conversationUrl and conversationId is answered with the stored
\* conversationUrl and conversationId and reused: true, without a vendor call.
C1_ReuseWithinTtl ==
  Resumable(last) =>
    /\ last.status = 200
    /\ Has(last.body, "reused") /\ last.body.reused = TRUE
    /\ last.body.conversationId = last.req.pre[1].conversationId
    /\ last.body.conversationUrl = last.req.pre[1].conversationUrl
    /\ last.req.calls = 0

\* C2: a successful POST /api/conversations for a session id that was not
\* stored when the request arrived made exactly one vendor call and leaves
\* the store holding that id with the conversationId and conversationUrl the
\* vendor returned, which are also the ones in the response.
C2_FirstCreate ==
  (last.op = "conv" /\ last.status = 200 /\ last.req.pre = <<>>) =>
    /\ last.req.calls = 1
    /\ last.req.sid \in DOMAIN sessions
    /\ sessions[last.req.sid].id = last.req.sid
    /\ sessions[last.req.sid].conversationId = last.req.vendor[1].conversationId
    /\ sessions[last.req.sid].conversationUrl
         = UrlOf(last.req.vendor[1].conversationId)
    /\ last.body.conversationId = sessions[last.req.sid].conversationId
    /\ last.body.conversationUrl = sessions[last.req.sid].conversationUrl

C2_Witness ==
  /\ last.op = "conv" /\ last.status = 200 /\ last.req.pre = <<>>
  /\ last.req.sid = "s2" /\ "s1" \in DOMAIN sessions
  /\ sessions["s2"].conversationId = 2

\* C3: a successful POST /api/conversations for a stored session older than
\* the TTL marks it expired before the new session is written, and the stored
\* session ends up with the new conversationId.
C3_ExpiredThenRecreated ==
  (/\ last.op = "conv" /\ last.status = 200
   /\ last.req.pre # <<>>
   /\ last.req.startedAt - last.req.pre[1].createdAt > SessionTtlMs) =>
    LET log == statusLog[last.req.sid]
        n == Len(log)
    IN /\ n >= 3
       /\ log[n - 1] = "expired"
       /\ log[n] = sessions[last.req.sid].status
       /\ sessions[last.req.sid].conversationId = last.body.conversationId
       /\ last.body.conversationId # last.req.pre[1].conversationId

\* C4: a webhook delivery whose dedupe key has a recorded expiry still in the
\* future is answered {received: true, duplicate: true} and changes no
\* session.
C4_DuplicateIgnored ==
  [][(deliveries' # deliveries /\ last'.req.expiry > last'.req.at) =>
       /\ last'.status = 200
       /\ last'.body = [received |-> TRUE, duplicate |-> TRUE]
       /\ sessions' = sessions
       /\ statusLog' = statusLog
       /\ webhookDedupeStore' = webhookDedupeStore]_vars

C4_Witness ==
  /\ last.op = "webhook"
  /\ last.req.expiry > last.req.at
  /\ Has(last.body, "duplicate")
  /\ sessions # <<>>

\* C5: with a webhook secret and TAVUS_WEBHOOK_VERIFY=true, every delivery
\* whose signature is missing or is not the HMAC-SHA256 of the raw body is
\* answered 401, a repeated one included.
C5_BadSignatureRejected ==
  (/\ last.op = "webhook" /\ env.secret /\ env.verify
   /\ last.req.signature # Hmac(WebhookSecret, last.req.rawBody)) =>
    last.status = 401

\* C6: a vendor error whose body contains "maximum concurrent conversations"
\* is answered with code: "TAVUS_MAX_CONCURRENT" in the response body.
C6_MaxConcurrentCode ==
  (IsVendorError(last) /\ last.req.vendor[1].maxConcurrent) =>
    (Has(last.body, "code") /\ last.body.code = "TAVUS_MAX_CONCURRENT")

\* C7: per limiter key, a request inside a window that already allowed
\* RateMax requests is denied with 429 and Retry-After and starts no route
\* logic; any other request is allowed; a request with no window or at or
\* after resetAt opens a new window of WindowMs with count 1, and a request
\* allowed inside a window adds one to its count, which never exceeds RateMax.
C7_FixedWindow ==
  [][rl' # rl =>
       LET key == rl'.key
           inWindow == key \in DOMAIN hits /\ now < hits[key].resetAt
           full == inWindow /\ hits[key].count >= RateMax
       IN /\ full => /\ ~rl'.allowed
                     /\ last'.status = 429 /\ last'.retryAfter >= 0
                     /\ reqs' = reqs /\ vendorCalls' = vendorCalls
                     /\ sessions' = sessions
          /\ ~full => /\ rl'.allowed
                      /\ last' # last => last'.status # 429
          /\ ~inWindow =>
               hits'[key] = [count |-> 1, resetAt |-> now + WindowMs]
          /\ (inWindow /\ ~full) =>
               hits'[key] = [count |-> hits[key].count + 1,
                             resetAt |-> hits[key].resetAt]
          /\ \A k \in DOMAIN hits' : hits'[k].count <= RateMax]_vars

C7_Witness ==
  /\ ~rl.allowed
  /\ last.op = "conv" /\ last.status = 429 /\ last.retryAfter >= 0
  /\ hits[rl.key].count = RateMax /\ now < hits[rl.key].resetAt
  /\ \E k \in DOMAIN hits : k # rl.key

\* C8: an accepted webhook delivery leaves its target session with status
\* ended after a termination event and active after a liveness event.
C8_StatusFollowsEvent ==
  (last.op = "webhook" /\ last.status = 200 /\ ~Has(last.body, "duplicate")) =>
    \A sid \in DOMAIN sessions :
      sessions[sid].conversationId = last.req.rawBody.conversation_id =>
        /\ last.req.rawBody.event_type = "ended" =>
             sessions[sid].status = "ended"
        /\ last.req.rawBody.event_type = "joined" =>
             sessions[sid].status = "active"

\* C9: a webhook delivery that is no duplicate and, when verification is on,
\* carries the HMAC of its body is answered 200 {received: true}, with or
\* without a stored session matching the event.
C9_AlwaysAcknowledged ==
  (/\ last.op = "webhook"
   /\ ~(last.req.expiry > last.req.at)
   /\ (env.secret /\ env.verify) =>
        last.req.signature = Hmac(WebhookSecret, last.req.rawBody)) =>
    (last.status = 200 /\ last.body = [received |-> TRUE])

C9_Witness ==
  /\ last.op = "webhook" /\ last.status = 200
  /\ last.body = [received |-> TRUE]
  /\ env.secret /\ ~env.verify /\ last.req.signature = NoSignature
  /\ sessions = <<>>

\* C10: when the vendor answers the creation call with a non-2xx status the
\* response carries that status and an error body and the store is unchanged.
C10_VendorErrorProxied ==
  [][\A r \in Reqs :
       (reqs[r].pc = "vendor" /\ reqs'[r].pc = "idle" /\ IsVendorError(last')) =>
         /\ last'.status = last'.req.vendor[1].status
         /\ Has(last'.body, "error")
         /\ sessions' = sessions
         /\ statusLog' = statusLog]_vars

C10_Witness ==
  /\ IsVendorError(last)
  /\ last.req.vendor[1].status = 400 /\ last.status = 400
  /\ last.req.sid \in DOMAIN sessions

\* C11: when the vendor answers 2xx without a conversation url under any of
\* its spellings, or without a conversation id, the response is 500 "Invalid
\* Tavus API response" and the store is left as it was.
C11_MissingFieldsRejected ==
  [][\A r \in Reqs :
       (/\ reqs[r].pc = "vendor" /\ reqs'[r].pc = "idle"
        /\ last'.req.vendor[1].status \in 200..299
        /\ ~(last'.req.vendor[1].hasUrl /\ last'.req.vendor[1].hasId)) =>
         /\ last'.status = 500
         /\ last'.body.error = "Invalid Tavus API response"
         /\ sessions' = sessions
         /\ statusLog' = statusLog]_vars

C11_Witness ==
  /\ last.op = "conv" /\ last.status = 500
  /\ last.req.vendor # <<>>
  /\ last.req.vendor[1].status = 200
  /\ last.req.vendor[1].hasId /\ ~last.req.vendor[1].hasUrl
  /\ last.req.pre # <<>>
  /\ sessions[last.req.sid] = last.req.pre[1]

\* whether the handler's identifier check finds a persona or replica id: the
\* app's when the request names an app that is found, the request's or the
\* environment's when it names none
CodeResolvable(body) ==
  IF Has(body, "appSlug")
    THEN body.appSlug \in DOMAIN Apps /\ Apps[body.appSlug].hasIds
    ELSE body.hasIds \/ env.defaultIds

\* whether the request, the app configuration or the environment names one
AnyResolvable(body) ==
  \/ body.hasIds \/ env.defaultIds
  \/ /\ Has(body, "appSlug") /\ body.appSlug \in DOMAIN Apps
     /\ Apps[body.appSlug].hasIds

\* a step in which the limiter let a well-formed request through
Admitted(r) ==
  /\ hits' # hits /\ reqs[r].pc = "idle"
  /\ reqs'[r].pc = "vendor" \/ Has(last'.req.body, "sessionId")

RequestOf(r) ==
  IF reqs'[r].pc = "vendor" THEN reqs'[r].body ELSE last'.req.body

\* the app lookup of the request threw (the database did not answer)
LookupFailed(r) ==
  /\ reqs'[r].pc = "idle" /\ env.apiKey
  /\ last'.status = 500 /\ last'.body.error = "Failed to create conversation"

C13_UpdateFrame ==
  [][\A id \in SessionIds, partial \in Partials, dbOk \in BOOLEAN :
       (/\ last'.op = "store" /\ last'.name = "updateSession"
        /\ last'.id = id /\ last'.ok = dbOk
        /\ StoreUpdate(id, partial, dbOk)) =>
         /\ id \notin DOMAIN sessions =>
              (sessions' = sessions /\ last'.result = <<>>)
         /\ id \in DOMAIN sessions =>
              /\ DOMAIN sessions' = DOMAIN sessions
              /\ \A other \in DOMAIN sessions \ {id} :
                   sessions'[other] = sessions[other]
              /\ sessions'[id].id = id
              /\ sessions'[id].createdAt = sessions[id].createdAt
              /\ \A k \in PartialKeys \ DOMAIN partial :
                   sessions'[id][k] = sessions[id][k]
              /\ last'.ok => last'.result = <<sessions'[id]>>]_vars

C13_Witness ==
  /\ last.op = "store" /\ last.name = "updateSession" /\ last.ok
  /\ last.id = "s1" /\ last.result # <<>>
  /\ sessions["s1"].status = "ended" /\ sessions["s1"].conversationId = 5
  /\ sessions["s1"].createdAt < now
  /\ "s2" \in DOMAIN sessions

\* C14: the createdAt of a stored session never changes, whatever operation
\* follows on its id.
C14_CreatedAtFixed ==
  [][\A sid \in DOMAIN sessions :
       sid \in DOMAIN sessions' =>
         sessions'[sid].createdAt = sessions[sid].createdAt]_vars

\* C15: a session id once stored stays stored: no operation removes an
\* entry of the store.
C15_NeverDeleted ==
  [][\A sid \in DOMAIN sessions :
       sid \in DOMAIN sessions' /\ GetSession(sessions', sid) # <<>>]_vars

C15_Witness ==
  /\ env.backend = "supabase"
  /\ DOMAIN sessions = {"s1", "s2"}
  /\ sessions["s1"].status = "ended" /\ sessions["s2"].status = "ended"
  /\ last.op = "webhook" /\ deliveries = 2 /\ vendorCalls = 2

\* C16: a POST /api/conversations request sends at most one creation call to
\* the vendor: the step that sends adds one call, and the step that handles
\* the vendor's answer, whatever it is, adds none and ends the request.
C16_NoRetry ==
  [][/\ reqs' = reqs => vendorCalls' = vendorCalls
     /\ \A r \in Reqs :
       /\ (reqs[r].pc = "idle" /\ reqs'[r].pc = "vendor") =>
            vendorCalls' = vendorCalls + 1
       /\ reqs[r].pc = "vendor" =>
            /\ vendorCalls' = vendorCalls
            /\ reqs'[r].pc = "vendor"
               \/ (/\ reqs'[r].pc = "idle"
                   /\ last'.req.calls = 1
                   /\ vendorCalls' = reqs[r].callsBefore + 1)]_vars

C16_Witness ==
  /\ IsVendorError(last) /\ last.req.vendor[1].status = 500
  /\ last.req.calls = 1 /\ reqs["r1"].pc = "idle"
  /\ vendorCalls = 2

\* C17: every creation request sent to the vendor carries
\* max_call_duration = 150.
C17_FixedDuration ==
  \A r \in Reqs :
    reqs[r].pc = "vendor" => reqs[r].payload.max_call_duration = 150

\* two sessions, or two optional sessions, equal apart from createdAt
SameFields(a, b) ==
  \A k \in {"id", "conversationId", "conversationUrl", "status"} : a[k] = b[k]
SameResult(x, y) ==
  /\ Len(x) = Len(y)
  /\ x # <<>> => SameFields(x[1], y[1])
SameStore(x, y) ==
  /\ DOMAIN x = DOMAIN y
  /\ \A id \in DOMAIN x : SameFields(x[id], y[id])

\* C18: whichever implementation serves a storage call whose database
\* request succeeds, the call returns and leaves what MemStorage returns and
\* leaves for the same call on the same store, apart from createdAt.
C18_StoresInterchangeable ==
  [][last'.op = "store" =>
       /\ \A id \in SessionIds :
            (last'.name = "getSession" /\ StoreGet(id, TRUE)) =>
              SameResult(last'.result, GetSession(sessions, id))
       /\ \A conversationId \in {5, 7} :
            (/\ last'.name = "getSessionByConversationId"
             /\ StoreGetByConversationId(conversationId)) =>
              LET m == MemGetSessionByConversationId(sessions, conversationId)
              IN last'.ok = m.ok /\ SameResult(last'.result, m.result)
       /\ \A id \in SessionIds : \A ins \in Inserts(id) :
            (last'.name = "createSession" /\ StoreCreate(id, ins, TRUE)) =>
              LET m == MemCreateSession(sessions, id, ins, now)
              IN /\ last'.ok = m.ok
                 /\ SameResult(last'.result, <<m.store[id]>>)
                 /\ SameStore(sessions', m.store)
       /\ \A id \in SessionIds, partial \in Partials :
            (last'.name = "updateSession" /\ StoreUpdate(id, partial, TRUE)) =>
              LET m == MemUpdateSession(sessions, id, partial)
              IN /\ last'.ok = m.ok
                 /\ SameResult(last'.result, m.result)
                 /\ SameStore(sessions', m.store)]_vars

\* C19: the component never has two POST /api/conversations in flight.
C19_SingleFlight == conv.mounted => Len(conv.pending) <= 1

\* C20: a timer mounted with duration d > 0 loses exactly one second per
\* tick and never shows less than 0; under fair ticks it reaches 0 unless End
\* is clicked first, onComplete is called only at 0, and the page is always
\* left for /thank-you; a click on End calls the same callback at once.
C20_ConversationEnds ==
  /\ [][(timer.mounted /\ timer'.ticks # timer.ticks) =>
          /\ timer'.ticks = timer.ticks + 1
          /\ timer'.timeRemaining = timer.timeRemaining - 1
          /\ timer'.timeRemaining >= 0]_vars
  /\ [][(timer.mounted /\ ~timer'.mounted) =>
          /\ timer'.location = "/thank-you"
          /\ timer'.onEndCalls = timer.onEndCalls + 1
          /\ timer'.endedBy = "timer" =>
               (timer.timeRemaining = 0 /\ timer.ticks = timer.duration)]_vars
  /\ [](timer.mounted => ENABLED ClickEnd)
  /\ timer.mounted ~> (timer.timeRemaining = 0 \/ timer.endedBy = "click")
  /\ timer.mounted ~> (timer.location = "/thank-you")

C20_Witness ==
  /\ timer.location = "/thank-you" /\ timer.endedBy = "timer"
  /\ timer.duration = MaxDuration /\ timer.ticks = MaxDuration
  /\ timer.timeRemaining = 0 /\ timer.onEndCalls = 1

\* there is a remote participant and the first one has a video track
RemoteVideoReady(ps) ==
  \E i \in 1..Len(ps) :
    /\ ~ps[i].local /\ ps[i].videoTrack
    /\ \A j \in 1..(i - 1) : ps[j].local

\* a participant or track event of run k's call object is processed
EventProcessed(k) ==
  /\ Joined(k) /\ video.mounted
  /\ video'.runs[k].obj = "joined"
  /\ video'.runs[k].participants # video.runs[k].participants

AliveCallObjects == {k \in 1..Len(video.runs) : Alive(video.runs[k])}
Unmounted == ~video.mounted /\ video.runs # <<>>

\* C22: at most one Daily call object is alive at any time; after unmount no
\* call object is created or joins the call, and every call object is
\* eventually destroyed.
C22_OneCallObject ==
  /\ [](Cardinality(AliveCallObjects) <= 1)
  /\ [][Unmounted =>
          \A k \in 1..Len(video.runs) :
            (video'.runs[k].obj \in {"joining", "joined"}
               => video'.runs[k].obj = video.runs[k].obj)]_vars
  /\ (Unmounted ~> (AliveCallObjects = {}))

\* C23: two requests for the same session id that has no stored session are
\* never both between their session lookup and their store write, so never
\* both waiting for the vendor.
C23_OneCreateInFlight ==
  \A a, b \in Reqs :
    (/\ a # b
     /\ reqs[a].pc = "vendor" /\ reqs[b].pc = "vendor"
     /\ reqs[a].pre = <<>> /\ reqs[b].pre = <<>>)
      => reqs[a].sid # reqs[b].sid

\* the key the claim names for a delivery
C24_Key(signature, rawBody) ==
  IF signature # <<>> THEN <<"sig", signature>>
  ELSE <<"body", <<"sha256", rawBody>>>>

\* C24: a delivery is a duplicate exactly when the expiry recorded under
\* 'sig:' + signature (or 'body:' + hash of the body, without a signature)
\* is in the future; a duplicate leaves every expiry as it is, and any other
\* delivery records now + TTL under its key and touches no other key.
C24_DedupeKeyAndTtl ==
  [][deliveries' # deliveries =>
       LET key == C24_Key(last'.req.signature, last'.req.rawBody)
           armed == key \in DOMAIN webhookDedupeStore
                    /\ webhookDedupeStore[key] > now
       IN /\ Has(last'.body, "duplicate") <=> armed
          /\ armed => webhookDedupeStore' = webhookDedupeStore
          /\ ~armed =>
               /\ DOMAIN webhookDedupeStore'
                    = DOMAIN webhookDedupeStore \cup {key}
               /\ webhookDedupeStore'[key] = now + DedupeTtlMs
               /\ \A k \in DOMAIN webhookDedupeStore :
                    k # key => webhookDedupeStore'[k] = webhookDedupeStore[k]]_vars

\* a signed delivery arrived again once its expiry had passed, was processed
\* as new and re-armed the TTL
C24_Witness ==
  /\ last.op = "webhook" /\ last.req.signature # <<>>
  /\ last.req.expiry # 0 /\ last.req.expiry <= last.req.at
  /\ ~Has(last.body, "duplicate")
  /\ now = last.req.at
  /\ webhookDedupeStore[<<"sig", last.req.signature>>] = now + DedupeTtlMs

\* C25: the traffic source in the conversation name and on the session is
\* one of nfc, qr, link, direct: the word the request's source spells, in
\* any case and with white space around it, and direct for anything else;
\* normalizing it again returns it unchanged.
C25_SourceNormalized ==
  last.op = "source" =>
    LET trafficSource == last.insert.source
    IN /\ trafficSource \in ValidSources
       /\ last.conversationName[2] = trafficSource
       /\ trafficSource = IF last.req.word # <<>> THEN last.req.word
                          ELSE <<"d", "i", "r", "e", "c", "t">>
       /\ last.again # <<>> => last.again[1] = trafficSource

\* " LiNK\t" was normalized to link, and link again to link
C25_Witness ==
  /\ last.op = "source"
  /\ last.req.source = <<<<" ", "L", "i", "N", "K", "\t">>>>
  /\ last.insert.source = <<"l", "i", "n", "k">>
  /\ last.again = <<<<"l", "i", "n", "k">>>>

\* C26: every conversation the vendor created is the conversationId of a
\* stored session.
C26_NoOrphan ==
  \A n \in 1..vendorCount :
    \E sid \in DOMAIN sessions : sessions[sid].conversationId = n

\* C27: a delivery answered 401 or 500 leaves the dedupe store as it was, so
\* the next delivery with the same signature and body is not acknowledged as
\* a duplicate.
C27_RejectedKeepsKey ==
  [][deliveries' # deliveries =>
       /\ last'.status \in {401, 500} =>
            webhookDedupeStore' = webhookDedupeStore
       /\ (/\ last.op = "webhook" /\ last.status \in {401, 500}
           /\ last'.req.signature = last.req.signature
           /\ last'.req.rawBody = last.req.rawBody)
            => ~Has(last'.body, "duplicate")]_vars

\* C28: every stored count is between 1 and max and the remaining last
\* reported for a key is max - count, not below 0; a denied call leaves the
\* key's count and resetAt as they were, and a call changes or removes no
\* other key's entry.
C28_LimiterFrame ==
  /\ [](/\ \A k \in DOMAIN hits : 1 <= hits[k].count /\ hits[k].count <= RateMax
        /\ rl.key \in DOMAIN hits =>
             rl.remaining = (IF RateMax - hits[rl.key].count > 0
                               THEN RateMax - hits[rl.key].count ELSE 0))
  /\ [][/\ (rl' # rl /\ ~rl'.allowed) =>
             (rl'.key \in DOMAIN hits /\ hits'[rl'.key] = hits[rl'.key])
        /\ \A k \in DOMAIN hits :
             /\ k \in DOMAIN hits'
             /\ hits'[k] # hits[k] => (rl' # rl /\ k = rl'.key)]_vars

\* one address is at its limit and was just denied while another address has
\* a window of its own with one request counted
C28_Witness ==
  /\ ~rl.allowed /\ rl.remaining = 0 /\ rl.at = now
  /\ hits[rl.key].count = RateMax
  /\ \E k \in DOMAIN hits : k # rl.key /\ hits[k].count = 1
                            /\ hits[k].resetAt # hits[rl.key].resetAt

\* C29: when the mounted component's sessionId changes to a valid value, a
\* POST for the new sessionId is issued, and once every request has been
\* answered the conversationUrl on display is the one returned for the
\* current sessionId.
C29_FollowsSessionId ==
  /\ [][(/\ conv.mounted /\ conv'.mounted
         /\ conv'.sessionId # conv.sessionId
         /\ conv'.sessionId \in SessionIds)
          => /\ conv'.posts = conv.posts + 1
             /\ conv'.pending[Len(conv'.pending)] = conv'.sessionId]_vars
  /\ []((/\ conv.mounted /\ conv.pending = <<>>
         /\ conv.sessionId \in SessionIds
         /\ conv.conversationUrl # 0 /\ ~conv.error)
          => conv.conversationUrl = ClientUrlOf(conv.sessionId))

====
